---- MODULE Spec2Model ----
(***************************************************************************)
(* A model of the image update automation reconciler                       *)
(* (controllers/imageupdateautomation_controller.go).                      *)
(*                                                                         *)
(* One ImageUpdateAutomation object, the GitRepository it refers to, the   *)
(* upstream git repository and the reconciler's working state are          *)
(* modelled.  Reconcile is cut into steps at its calls to the API server   *)
(* and to git; the function's local variables live in the record run.      *)
(* Deferred calls are a stack in run.defers, executed by every return and  *)
(* by a panic.                                                             *)
(***************************************************************************)
EXTENDS Integers, Sequences, FiniteSets, TLC

VARIABLES
    object,         \* the ImageUpdateAutomation object on the API server
    gitRepository,  \* the GitRepository object on the API server
    policyLatest,   \* the image tag the ImagePolicy objects select
    remote,         \* upstream repository: branch heads
    commits,        \* every commit object made so far: commits[id]
    tmpDirs,        \* temporary directories present on disk, by run number
    metrics,        \* what the metrics recorder was last told
    reconciler,     \* the ImageUpdateAutomationReconciler's fields
    clock,          \* number of Reconcile invocations so far
    run,            \* local state of the current Reconcile invocation
    call            \* the last call of a function of the controller made
                    \* on its own: its name, arguments and result

vars == <<object, gitRepository, policyLatest, remote, commits, tmpDirs, metrics,
          reconciler, clock, run, call>>

\* ------------------------------------------------------------------ bounds

\* Number of Reconcile invocations in a behaviour.
MaxRuns == 2

\* ------------------------------------------------------- program constants

originRemote == "origin"
defaultMessageTemplate == "Update from image update automation"
signingSecretKey == "git.asc"
GitRepositoryKind == "GitRepository"
UpdateStrategySetters == "Setters"
LibGit2Implementation == "libgit2"
GoGitImplementation == "go-git"

\* condition reasons
ReconciliationFailedReason == "ReconciliationFailed"
ReconciliationSucceededReason == "ReconciliationSucceeded"
GitNotAvailableReason == "GitRepositoryNotAvailable"
NoStrategyReason == "MissingUpdateStrategy"

\* time.Second, in milliseconds
Second == 1000

\* ------------------------------------------------------------- error values

\* An error value: its kind and, for errors whose text the code inspects,
\* the text as a sequence of tokens.  nil is NoErr.
Err(kind) == [kind |-> kind, text |-> <<>>]
ErrText(kind, text) == [kind |-> kind, text |-> text]
NoErr == Err("nil")

errNoChanges == Err("no changes made to working directory")
errRemoteBranchMissing == Err("remote branch missing")

\* ------------------------------------------------------------ text helpers
\* Error texts are sequences of tokens: the words "remote:" and
\* "unknown error:", the characters " ", "\t", "=", "\n", and other words.

RECURSIVE TrimLeft(_, _)
TrimLeft(s, cutset) ==
    IF s # <<>> /\ Head(s) \in cutset THEN TrimLeft(Tail(s), cutset) ELSE s

RECURSIVE TrimRight(_, _)
TrimRight(s, cutset) ==
    IF s # <<>> /\ s[Len(s)] \in cutset
    THEN TrimRight(SubSeq(s, 1, Len(s) - 1), cutset)
    ELSE s

\* strings.Trim
Trim(s, cutset) == TrimRight(TrimLeft(s, cutset), cutset)

\* nothing is trimmed
TrimSpace_None(s) == s

\* strings.TrimSpace
TrimSpace(s) == Trim(s, {" ", "\t", "\n"})

\* the prefix is kept
TrimPrefix_Kept(s, prefix) == s

\* strings.TrimPrefix with a one-token prefix
TrimPrefix(s, prefix) ==
    IF s # <<>> /\ Head(s) = prefix THEN Tail(s) ELSE s

\* strings.Split(s, "\n"): always at least one line
RECURSIVE Split(_)
Split(s) ==
    IF \A i \in 1..Len(s) : s[i] # "\n"
    THEN <<s>>
    ELSE LET i == CHOOSE k \in 1..Len(s) :
                      s[k] = "\n" /\ \A j \in 1..(k - 1) : s[j] # "\n"
         IN  <<SubSeq(s, 1, i - 1)>> \o Split(SubSeq(s, i + 1, Len(s)))

pushRejectedText == <<"push rejected; check git secret has write access">>

gogitPushError(err) ==
    IF err = NoErr THEN NoErr
    ELSE IF TrimSpace(err.text) = <<"unknown error:", " ", "remote:">>
         THEN ErrText("push", pushRejectedText)
         ELSE err

\* the loop of libgit2PushError over the lines, from line i on
RECURSIVE libgit2Lines(_, _, _)
libgit2Lines(lines, i, appending) ==
    IF i > Len(lines) THEN <<>>
    ELSE LET m == Trim(TrimPrefix(lines[i], "remote:"), {" ", "\t", "="})
         IN  IF m # <<>>
             THEN (IF appending THEN <<" ">> ELSE <<>>) \o m
                      \o libgit2Lines(lines, i + 1, TRUE)
             ELSE libgit2Lines(lines, i + 1, appending)

libgit2PushError(err) ==
    IF err = NoErr THEN err
    ELSE LET lines == Split(err.text)
         IN  IF Len(lines) = 1 THEN err
             ELSE ErrText("push", <<"remote:", " ">> \o libgit2Lines(lines, 1, FALSE))

\* ---------------------------------------------------------------- data model

\* *sourcev1.GitRepositoryRef; nil is NilRef.  A reference names a branch or,
\* with an empty Branch, a tag.
NilRef == [nil |-> TRUE, Branch |-> "", Tag |-> ""]
BranchRef(b) == [nil |-> FALSE, Branch |-> b, Tag |-> ""]
TagRef(t) == [nil |-> FALSE, Branch |-> "", Tag |-> t]

\* Branches of the upstream repository ("" is what an unresolved push
\* branch comes out as; no such branch can exist).
Branches == {"master", "flux-updates"}

\* git.DefaultBranch: what a nil reference checks out
DefaultBranch == "master"

\* *imagev1.PushSpec; nil is NoPush
NoPush == [nil |-> TRUE, Branch |-> ""]
PushTo(b) == [nil |-> FALSE, Branch |-> b]

\* commit message templates: the default (empty), one that does not parse,
\* one that parses and fails to execute on TemplateData
Templates == {"", "{{", "{{ .Missing }}"}

\* *imagev1.GitSpec; Checkout is the reference of .checkout, NilRef when
\* .checkout is nil.  (.commit is read in one place each, see Reconcile.)
NilGitSpec == [nil |-> TRUE, Checkout |-> NilRef, Push |-> NoPush]
GitSpecs ==
    {NilGitSpec} \cup
    [nil : {FALSE},
     Checkout : {NilRef, BranchRef("master"), TagRef("v1")},
     Push : {NoPush, PushTo("flux-updates")}]

\* *imagev1.UpdateStrategy
NilUpdate == [nil |-> TRUE, Strategy |-> "", Path |-> ""]
Updates ==
    {NilUpdate,
     [nil |-> FALSE, Strategy |-> UpdateStrategySetters, Path |-> ""],
     [nil |-> FALSE, Strategy |-> UpdateStrategySetters, Path |-> "sub"],
     [nil |-> FALSE, Strategy |-> "Other", Path |-> ""]}

\* spec.interval, in milliseconds
Intervals == {0, 500, 1000, 2000}

\* condition messages: a kind and what is formatted into it
Msg(kind, rev, branch, time, text) ==
    [kind |-> kind, rev |-> rev, branch |-> branch, time |-> time, text |-> text]
NoMsg == Msg("", 0, "", 0, <<>>)
\* err.Error()
ErrorMsg(e) == Msg(e.kind, 0, "", 0, e.text)

\* the Ready condition of the status; no condition is NoCondition
NoCondition == [Status |-> "none", Reason |-> "", Message |-> NoMsg]

\* imagev1.ImageUpdateAutomationStatus as first created: all fields zero
ZeroStatus ==
    [LastAutomationRunTime |-> 0, LastPushCommit |-> 0, LastPushTime |-> 0,
     Ready |-> NoCondition, LastHandledReconcileRequest |-> ""]

\* imagev1.SetImageUpdateAutomationReadiness(&auto, status, reason, message)
SetImageUpdateAutomationReadiness(auto, status, reason, message) ==
    [auto EXCEPT !.Status.Ready =
        [Status |-> status, Reason |-> reason, Message |-> message]]

\* meta.ReconcileAnnotationValue: the token, "" when the annotation is absent
ReconcileAnnotationValue(auto) == auto.Annotation

\* client.IgnoreNotFound
IgnoreNotFound(e) == IF e = Err("not found") THEN NoErr ELSE e

\* ctrl.Result and the error returned with it; panic marks a run ended by
\* a runtime panic instead of a return
Result(requeue, after, e) ==
    [Requeue |-> requeue, RequeueAfter |-> after, err |-> e, panic |-> FALSE]
Panicked == [Requeue |-> FALSE, RequeueAfter |-> 0, err |-> NoErr, panic |-> TRUE]

\* --------------------------------------------------------------- local state

\* the zero value of imagev1.ImageUpdateAutomation
ZeroAuto ==
    [Spec |-> [Suspend |-> FALSE, SourceRefKind |-> "", GitSpec |-> NilGitSpec],
     Annotation |-> "", Deleting |-> FALSE, Status |-> ZeroStatus]

\* the zero value of sourcev1.GitRepository
ZeroOrigin == [Reference |-> NilRef, GitImplementation |-> ""]

\* no repository opened: the nil *gogit.Repository
NoRepo ==
    [open |-> FALSE, HEAD |-> 0, branch |-> "",
     heads |-> [b \in Branches |-> 0], worktree |-> 0]

\* Reconcile's local variables before its first statement.  pc is the
\* position; ops lists the git and mutation operations invoked so far;
\* patches lists the patchStatus calls ([status, ok]); ran lists the
\* deferred calls executed on the way out; added and signed describe the
\* commit made; steps lists the positions passed; originErr, signingErr,
\* commitErr, fetchErr, pushAnswer and pushErr keep what the calls of that
\* name returned, failed the error of the operation that failed, and
\* lastPushRead the last push of the status as r.Get read it.
\*
\* auto.Spec holds the fields of the object's spec that several steps
\* read.  A field of the spec that Reconcile reads at one place only is
\* an input of the step that reads it, kept in update (auto.Spec.Update),
\* signingKey (gitSpec.Commit.SigningKey != nil), msgTmpl
\* (gitSpec.Commit.MessageTemplate) and interval (auto.Spec.Interval).
IdleRun ==
    [pc |-> "idle", now |-> 0, auto |-> ZeroAuto, origin |-> ZeroOrigin,
     ref |-> NilRef, pushBranch |-> "", tmp |-> 0, defers |-> <<>>,
     ran |-> <<>>, repo |-> NoRepo, err |-> NoErr,
     signingEntity |-> FALSE, rev |-> 0, added |-> {}, signed |-> FALSE,
     statusMessage |-> NoMsg, result |-> Result(FALSE, 0, NoErr),
     ops |-> <<>>, failWithErrorCalls |-> 0, patches |-> <<>>,
     update |-> NilUpdate, signingKey |-> FALSE, msgTmpl |-> "",
     interval |-> 0, steps |-> <<>>, originErr |-> NoErr, signingErr |-> NoErr,
     commitErr |-> NoErr, pushAnswer |-> NoErr, pushErr |-> NoErr,
     failed |-> NoErr, fetchErr |-> NoErr,
     lastPushRead |-> [commit |-> 0, time |-> 0]]

\* no function has been called on its own
NoCall == [fn |-> "", in |-> <<>>, out |-> <<>>]

\* ------------------------------------------------------------ initial state

\* The objects on the API server and the reconciler, as the run finds them.
\* A field that no run on the chosen objects reads is left at one value.
Init ==
    \E objExists \in BOOLEAN, suspend \in BOOLEAN :
    \E kind \in (IF objExists /\ ~suspend THEN {GitRepositoryKind, "Bucket"}
                 ELSE {GitRepositoryKind}) :
    \E gs \in (IF objExists /\ ~suspend /\ kind = GitRepositoryKind
               THEN GitSpecs ELSE {NilGitSpec}) :
    \E srcExists \in (IF ~gs.nil THEN BOOLEAN ELSE {FALSE}) :
    \E srcRef \in (IF srcExists /\ gs.Checkout.nil THEN {NilRef, BranchRef("master")}
                   ELSE {NilRef}) :
    LET ref == IF gs.Checkout.nil THEN srcRef ELSE gs.Checkout
        cloned == srcExists /\ ~(gs.Push.nil /\ ref.nil)
    IN
    \E impl \in (IF cloned THEN {GoGitImplementation, LibGit2Implementation}
                 ELSE {GoGitImplementation}) :
    \E policy \in (IF cloned THEN {1, 2} ELSE {1}) :
    \E annotation \in (IF objExists THEN {"", "token-1"} ELSE {""}) :
    \E deleting \in (IF suspend THEN BOOLEAN ELSE {FALSE}) :
    \E recorder \in (IF objExists /\ (suspend \/ gs.nil) THEN BOOLEAN ELSE {TRUE}) :
        /\ object = [exists |-> objExists,
                     Spec |-> [Suspend |-> suspend, SourceRefKind |-> kind,
                               GitSpec |-> gs],
                     Annotation |-> annotation, Deleting |-> deleting,
                     Status |-> ZeroStatus]
        /\ gitRepository = [exists |-> srcExists, Reference |-> srcRef,
                            GitImplementation |-> impl]
        /\ policyLatest = policy
        /\ remote = [heads |-> [b \in Branches |->
                                    IF b = "master" THEN 1 ELSE 0],
                     tags |-> [t \in {"v1"} |-> 1]]
        /\ commits = <<[tree |-> 1, parent |-> 0]>>
        /\ tmpDirs = {}
        /\ metrics = [suspend |-> "unset", ready |-> "unset", durations |-> 0]
        /\ reconciler = [MetricsRecorder |-> recorder]
        /\ clock = 0
        /\ run = IdleRun
        /\ call = NoCall

\* ------------------------------------------------------------ leaving a run

\* the deferred calls of r, last registered first
RECURSIVE Reversed(_)
Reversed(s) == IF s = <<>> THEN <<>> ELSE Append(Reversed(Tail(s)), Head(s))

\* recordSuspension(ctx, auto); auto is the copy made when the call was
\* deferred, whose Spec and deletion timestamp the run never changes
recordSuspension(m, auto) ==
    IF ~reconciler.MetricsRecorder THEN m
    ELSE IF auto.Deleting THEN [m EXCEPT !.suspend = "false"]
         ELSE [m EXCEPT !.suspend = IF auto.Spec.Suspend THEN "true" ELSE "false"]

\* recordReadinessMetric(ctx, &auto), with auto as it is on the way out
recordReadinessMetric(m, auto) ==
    IF ~reconciler.MetricsRecorder THEN m
    ELSE IF auto.Status.Ready # NoCondition
         THEN [m EXCEPT !.ready = auto.Status.Ready.Status]
         ELSE [m EXCEPT !.ready = "Unknown"]

\* the metrics after the deferred calls of r have run
DeferredMetrics(r) ==
    LET m1 == IF \E i \in 1..Len(r.defers) : r.defers[i] = "RecordDuration"
              THEN [metrics EXCEPT !.durations = 1] ELSE metrics
        m2 == IF \E i \in 1..Len(r.defers) : r.defers[i] = "recordReadinessMetric"
              THEN recordReadinessMetric(m1, r.auto) ELSE m1
    IN  IF \E i \in 1..Len(r.defers) : r.defers[i] = "recordSuspension"
        THEN recordSuspension(m2, r.auto) ELSE m2

\* the directory is left behind
DeferredTmpDirs_Leak(r) == tmpDirs

\* the temporary directories after the deferred calls of r have run
DeferredTmpDirs(r) ==
    IF \E i \in 1..Len(r.defers) : r.defers[i] = "os.RemoveAll"
    THEN tmpDirs \ {r.tmp} ELSE tmpDirs

\* Reconcile leaves with result res (a return or a panic): the deferred
\* calls run, last registered first.
Return(r, res) ==
    /\ run' = [r EXCEPT !.pc = "done", !.result = res, !.steps = Append(@, r.pc),
                        !.ran = Reversed(r.defers), !.defers = <<>>]
    /\ metrics' = DeferredMetrics(r)
    /\ tmpDirs' = DeferredTmpDirs(r)

\* Reconcile moves on to position pc
Goto(r, pc) ==
    /\ run' = [r EXCEPT !.pc = pc, !.steps = Append(@, r.pc)]
    /\ UNCHANGED <<metrics, tmpDirs>>

\* r.patchStatus(ctx, req, newStatus) re-reads the object and patches its
\* status.  api is whether the API server answers both calls; PatchOK is
\* whether the call returns nil.
PatchOK(api) == api /\ object.exists

\* the copy that Reconcile read is patched
objectAtPatch_Stale(read, current) == read

\* r.Get in patchStatus: the object as it is when patchStatus is called,
\* not the copy that Reconcile read
objectAtPatch(read, current) == current

\* client.MergeFrom(auto.DeepCopy()); auto.Status = newStatus;
\* r.Status().Patch: the object with its status replaced, when the calls
\* work
patchedObject(obj, newStatus, ok) ==
    IF ok THEN [obj EXCEPT !.Status = newStatus] ELSE obj

\* the object after r.patchStatus(ctx, req, newStatus): only its status is
\* replaced
patchStatus(newStatus, api) == patchedObject(object, newStatus, PatchOK(api))

\* the local record after a patchStatus call with the local status
Patched(r, api) ==
    [r EXCEPT !.patches = Append(@, [status |-> r.auto.Status, ok |-> PatchOK(api)])]

\* the failure path records the revision of the run as pushed
failWithError_Recording(r, e, api) ==
    Patched([r EXCEPT !.auto = SetImageUpdateAutomationReadiness(
                                   [r.auto EXCEPT !.Status.LastPushCommit = r.rev,
                                                  !.Status.LastPushTime = r.now],
                                   "False", ReconciliationFailedReason,
                                   ErrorMsg(e)),
                      !.failWithErrorCalls = @ + 1], api)

\* failWithError(err), up to its return statement: readiness is set on the
\* local object and a status patch is attempted
failWithError(r, e, api) ==
    Patched([r EXCEPT !.auto = SetImageUpdateAutomationReadiness(
                                   r.auto, "False", ReconciliationFailedReason,
                                   ErrorMsg(e)),
                      !.failWithErrorCalls = @ + 1], api)

\* the error of the status patch is returned in place of err
ReturnFailWithError_PatchError(r, e) ==
    \E api \in BOOLEAN :
        /\ object' = patchStatus(failWithError(r, e, api).auto.Status, api)
        /\ Return([failWithError(r, e, api) EXCEPT !.failed = e],
                  Result(TRUE, 0, IF PatchOK(api) THEN e ELSE Err("status patch failed")))

\* return failWithError(err)
ReturnFailWithError(r, e) ==
    \E api \in BOOLEAN :
        /\ object' = patchStatus(failWithError(r, e, api).auto.Status, api)
        /\ Return([failWithError(r, e, api) EXCEPT !.failed = e], Result(TRUE, 0, e))

\* ------------------------------------------------------------- Reconcile

\* what a failing API call returns
apiError == Err("api server error")
notFound == Err("not found")

\* the suspend flag is not looked at
isSuspended_Never(auto) == FALSE

\* if auto.Spec.Suspend
isSuspended(auto) == auto.Spec.Suspend

\* Reconcile, from its start to the reconcile-request check: read the
\* object, defer the metrics, leave when suspended.  (reference.GetReference
\* does not fail: the scheme of a reconciler set up for the kind holds it.)
GetAutomation ==
    /\ run.pc \in {"idle", "done"}
    /\ UNCHANGED call
    /\ clock < MaxRuns
    /\ clock' = clock + 1
    /\ UNCHANGED <<object, gitRepository, policyLatest, remote, commits, reconciler>>
    /\ LET r0 == [IdleRun EXCEPT !.now = clock + 1]
           r1 == [r0 EXCEPT !.auto = [Spec |-> object.Spec,
                                      Annotation |-> object.Annotation,
                                      Deleting |-> object.Deleting,
                                      Status |-> object.Status],
                            !.lastPushRead =
                                [commit |-> object.Status.LastPushCommit,
                                 time |-> object.Status.LastPushTime],
                            !.defers = <<"recordSuspension">>]
           r2 == [r1 EXCEPT !.defers = Append(@, "recordReadinessMetric")]
       IN  \E api \in BOOLEAN :
               IF ~api THEN Return(r0, Result(FALSE, 0, IgnoreNotFound(apiError)))
               ELSE IF ~object.exists
                    THEN Return(r0, Result(FALSE, 0, IgnoreNotFound(notFound)))
               ELSE IF isSuspended(r1.auto)
                    THEN Return(r1, Result(FALSE, 0, NoErr))
               ELSE IF ~reconciler.MetricsRecorder
                    THEN Goto(r2, "ack")
               ELSE Goto([r2 EXCEPT !.defers = Append(@, "RecordDuration")], "ack")

\* the token is not put into the status
ackedStatus_Forgotten(status, token) == status

\* auto.Status.SetLastHandledReconcileRequest(token)
ackedStatus(status, token) ==
    [status EXCEPT !.LastHandledReconcileRequest = token]

\* "whatever else happens, we've now seen the reconcile annotation"
AckReconcileRequest ==
    /\ run.pc = "ack"
    /\ UNCHANGED call
    /\ UNCHANGED <<gitRepository, policyLatest, remote, commits, reconciler, clock>>
    /\ LET token == ReconcileAnnotationValue(run.auto)
           r1 == [run EXCEPT !.auto.Status = ackedStatus(@, token)]
       IN  IF token = ""
           THEN Goto(run, "source") /\ UNCHANGED object
           ELSE \E api \in BOOLEAN :
                    /\ object' = patchStatus(r1.auto.Status, api)
                    /\ IF PatchOK(api)
                       THEN Goto(Patched(r1, api), "source")
                       ELSE Return(Patched(r1, api), Result(TRUE, 0, apiError))

\* r.Get(ctx, originName, &origin): the error
getOrigin(api) ==
    IF ~api THEN apiError
    ELSE IF ~gitRepository.exists THEN notFound
    ELSE NoErr

\* a missing source is treated as any other error of the read
isNotFound_Never(err) == FALSE

\* if client.IgnoreNotFound(err) == nil
isNotFound(err) == IgnoreNotFound(err) = NoErr

\* check the source kind and the git spec, and get the GitRepository object
GetSource ==
    /\ run.pc = "source"
    /\ UNCHANGED call
    /\ UNCHANGED <<gitRepository, policyLatest, remote, commits, reconciler, clock>>
    /\ IF run.auto.Spec.SourceRefKind # GitRepositoryKind
       THEN ReturnFailWithError(run, Err("source kind not supported"))
       ELSE IF run.auto.Spec.GitSpec.nil
       THEN ReturnFailWithError(run, Err("source kind GitRepository neccessitates field .spec.git"))
       ELSE \E api \in BOOLEAN :
            LET err == getOrigin(api)
                r0 == [run EXCEPT !.originErr = err]
                r1 == [r0 EXCEPT !.auto = SetImageUpdateAutomationReadiness(
                           run.auto, "False", GitNotAvailableReason,
                           Msg("referenced git repository is missing", 0, "", 0, <<>>))]
            IN  IF err = NoErr
                THEN /\ Goto([r0 EXCEPT !.origin =
                                 [Reference |-> gitRepository.Reference,
                                  GitImplementation |-> gitRepository.GitImplementation]],
                             "resolve")
                     /\ UNCHANGED object
                ELSE IF isNotFound(err)
                THEN \E papi \in BOOLEAN :
                         /\ object' = patchStatus(r1.auto.Status, papi)
                         /\ IF PatchOK(papi)
                            THEN Return(Patched(r1, papi), Result(FALSE, 0, NoErr))
                            ELSE Return(Patched(r1, papi), Result(TRUE, 0, apiError))
                ELSE /\ Return([r0 EXCEPT !.failed = err], Result(FALSE, 0, err))
                     /\ UNCHANGED object

\* the checkout reference of a run: the spec's, else the source's, else nil
checkoutRef(gitSpec, origin) ==
    IF ~gitSpec.Checkout.nil THEN gitSpec.Checkout
    ELSE IF ~origin.Reference.nil THEN origin.Reference
    ELSE NilRef

pushBranchError ==
    Err("Push branch not given explicitly, and cannot be inferred")

\* "validate the git spec and default any values needed later".  Without a
\* push spec the reference is dereferenced: a nil reference panics; for an
\* empty branch failWithError is called and its result dropped, and the
\* run goes on with an empty push branch.
ResolveRefs ==
    /\ run.pc = "resolve"
    /\ UNCHANGED call
    /\ UNCHANGED <<gitRepository, policyLatest, remote, commits, reconciler, clock>>
    /\ LET gitSpec == run.auto.Spec.GitSpec
           ref == checkoutRef(gitSpec, run.origin)
           r1 == [run EXCEPT !.ref = ref]
       IN  IF ~gitSpec.Push.nil
           THEN /\ Goto([r1 EXCEPT !.pushBranch = gitSpec.Push.Branch], "tmp")
                /\ UNCHANGED object
           ELSE IF ref.nil
           THEN Return(r1, Panicked) /\ UNCHANGED object
           ELSE IF ref.Branch = ""
           THEN \E api \in BOOLEAN :
                    /\ object' = patchStatus(
                           failWithError(r1, pushBranchError, api).auto.Status, api)
                    /\ Goto([failWithError(r1, pushBranchError, api)
                                EXCEPT !.pushBranch = ref.Branch], "tmp")
           ELSE /\ Goto([r1 EXCEPT !.pushBranch = ref.Branch], "tmp")
                /\ UNCHANGED object

\* ioutil.TempDir and the deferred os.RemoveAll
TempDir ==
    /\ run.pc = "tmp"
    /\ UNCHANGED call
    /\ UNCHANGED <<gitRepository, policyLatest, remote, commits, reconciler, clock>>
    /\ \E ok \in BOOLEAN :
           IF ~ok
           THEN ReturnFailWithError(run, Err("cannot create temporary directory"))
           ELSE /\ run' = [run EXCEPT !.pc = "access", !.tmp = run.now,
                                      !.steps = Append(@, run.pc),
                                      !.defers = Append(@, "os.RemoveAll")]
                /\ tmpDirs' = tmpDirs \cup {run.now}
                /\ UNCHANGED <<object, metrics>>

\* r.getRepoAccess
GetRepoAccess ==
    /\ run.pc = "access"
    /\ UNCHANGED call
    /\ UNCHANGED <<gitRepository, policyLatest, remote, commits, reconciler, clock>>
    /\ LET r1 == [run EXCEPT !.ops = Append(@, "getRepoAccess")]
       IN  \E e \in {NoErr, Err("auth secret error")} :
               IF e # NoErr
               THEN ReturnFailWithError(r1, e)
               ELSE Goto(r1, "clone") /\ UNCHANGED object

\* the commit a reference resolves to upstream, 0 when there is none
resolveUpstream(ref) ==
    IF ref.nil THEN remote.heads[DefaultBranch]
    ELSE IF ref.Branch # ""
         THEN (IF ref.Branch \in Branches THEN remote.heads[ref.Branch] ELSE 0)
         ELSE remote.tags[ref.Tag]

\* the repository cloneInto opens: the reference checked out, on its
\* branch or with a detached HEAD
clonedRepo(ref) ==
    LET c == resolveUpstream(ref)
        b == IF ref.nil THEN DefaultBranch ELSE ref.Branch
    IN  [open |-> TRUE, HEAD |-> c, branch |-> b,
         heads |-> [x \in Branches |-> IF x = b THEN c ELSE 0],
         worktree |-> commits[c].tree]

\* cloneInto
CloneInto ==
    /\ run.pc = "clone"
    /\ UNCHANGED call
    /\ UNCHANGED <<gitRepository, policyLatest, remote, commits, reconciler, clock>>
    /\ LET r1 == [run EXCEPT !.ops = Append(@, "cloneInto")]
       IN  \E ok \in BOOLEAN :
               IF ~ok \/ resolveUpstream(run.ref) = 0
               THEN ReturnFailWithError(r1, Err("unable to clone"))
               ELSE /\ Goto([r1 EXCEPT !.repo = clonedRepo(run.ref)],
                            IF run.auto.Spec.GitSpec.Push.nil THEN "update" ELSE "fetch")
                    /\ UNCHANGED object

\* the remote branch is never found
fetch_NeverFound(branch, transfer) ==
    IF ~transfer THEN Err("fetch failed") ELSE errRemoteBranchMissing

\* fetch / fetchGoGit / fetchLibgit2 of refs/heads/<branch>: the error
\* returned, given whether the transfer itself works
fetch(branch, transfer) ==
    IF ~transfer THEN Err("fetch failed")
    ELSE IF remote.heads[branch] = 0 THEN errRemoteBranchMissing
    ELSE NoErr

\* no error of fetch ends the run
fetchFailed_Never(err) == FALSE

\* if err != nil && err != errRemoteBranchMissing
fetchFailed(err) == err # NoErr /\ err # errRemoteBranchMissing

\* "When there's a push spec, the pushed-to branch is where commits shall
\* be made": fetch it; a missing remote branch is not a failure
Fetch ==
    /\ run.pc = "fetch"
    /\ UNCHANGED call
    /\ UNCHANGED <<gitRepository, policyLatest, remote, commits, reconciler, clock>>
    /\ \E transfer \in BOOLEAN :
               LET e == fetch(run.pushBranch, transfer)
                   r1 == [run EXCEPT !.ops = Append(@, "fetch"), !.fetchErr = e]
               IN  IF fetchFailed(e)
                   THEN ReturnFailWithError(r1, e)
                   ELSE /\ Goto([r1 EXCEPT !.repo.heads[run.pushBranch] =
                                    IF e = NoErr THEN remote.heads[run.pushBranch] ELSE @],
                                "switch")
                        /\ UNCHANGED object

\* the branch is set to HEAD whether or not it exists
switchBranch_AtHead(repo, pushBranch) ==
    [repo EXCEPT !.heads[pushBranch] = repo.HEAD, !.branch = pushBranch]

\* switchBranch: the repository after it; the branch is created at HEAD
\* when there is no local branch of that name, then checked out
switchBranch(repo, pushBranch) ==
    LET heads == IF repo.heads[pushBranch] = 0
                 THEN [repo.heads EXCEPT ![pushBranch] = repo.HEAD]
                 ELSE repo.heads
    IN  [repo EXCEPT !.heads = heads, !.HEAD = heads[pushBranch],
                     !.branch = pushBranch,
                     !.worktree = commits[heads[pushBranch]].tree]

SwitchBranch ==
    /\ run.pc = "switch"
    /\ UNCHANGED call
    /\ UNCHANGED <<gitRepository, policyLatest, remote, commits, reconciler, clock>>
    /\ LET r1 == [run EXCEPT !.ops = Append(@, "switchBranch")]
       IN  \E ok \in BOOLEAN :
               IF ~ok
               THEN ReturnFailWithError(r1, Err("checkout failed"))
               ELSE /\ Goto([r1 EXCEPT !.repo = switchBranch(run.repo, run.pushBranch)],
                            "update")
                    /\ UNCHANGED object

\* From manifestsPath to the end of the switch on the update strategy.
\* auto.Spec.Update.Path is read before Update is checked for nil, so a
\* missing update spec panics; then list the policies and run the
\* setters, or give up on an unknown strategy.
UpdateManifests ==
    /\ run.pc = "update"
    /\ UNCHANGED call
    /\ UNCHANGED <<gitRepository, policyLatest, remote, commits, reconciler, clock>>
    /\ \E update \in Updates :
       LET r0 == [run EXCEPT !.update = update]
           r1 == [r0 EXCEPT !.ops = Append(@, "updateAccordingToSetters")]
       IN  IF update.nil
           THEN Return(r0, Panicked) /\ UNCHANGED object
           ELSE \E securejoin \in (IF update.Path = "" THEN {TRUE} ELSE BOOLEAN) :
                IF ~securejoin
                THEN ReturnFailWithError(r0, Err("securejoin failed"))
                ELSE IF update.Strategy = UpdateStrategySetters
                THEN \E list \in BOOLEAN, setters \in BOOLEAN :
                         IF ~list
                         THEN ReturnFailWithError(r0, apiError)
                         ELSE IF ~setters
                         THEN ReturnFailWithError(r1, Err("update failed"))
                         ELSE /\ Goto([r1 EXCEPT !.repo.worktree = policyLatest], "sign")
                              /\ UNCHANGED object
                ELSE LET r2 == [r0 EXCEPT !.auto = SetImageUpdateAutomationReadiness(
                                    run.auto, "False", NoStrategyReason,
                                    Msg("no known update strategy is given for object",
                                        0, "", 0, <<>>))]
                     IN  \E api \in BOOLEAN :
                             /\ object' = patchStatus(r2.auto.Status, api)
                             /\ Return(Patched(r2, api),
                                       Result(FALSE, 0,
                                              IF PatchOK(api) THEN NoErr ELSE apiError))

\* the signing key secret as r.Get finds it: missing, or with its git.asc
\* data (present or not), whether that parses as an armored key ring, and
\* the number of entities in the ring
Secrets ==
    {[exists |-> FALSE, hasKey |-> FALSE, parses |-> FALSE, entities |-> 0],
     [exists |-> TRUE, hasKey |-> FALSE, parses |-> FALSE, entities |-> 0],
     [exists |-> TRUE, hasKey |-> TRUE, parses |-> FALSE, entities |-> 0]}
    \cup [exists : {TRUE}, hasKey : {TRUE}, parses : {TRUE}, entities : {0, 1, 2}]

\* r.getSigningEntity: the entity (TRUE) or nil (FALSE), the error, and
\* whether the call panics (entities[0] of an empty list)
getSigningEntity(secret) ==
    IF ~secret.exists
    THEN [entity |-> FALSE, err |-> Err("could not find signing key secret"), panic |-> FALSE]
    ELSE IF ~secret.hasKey
    THEN [entity |-> FALSE, err |-> Err("signing key secret does not contain a 'git.asc' key"),
          panic |-> FALSE]
    ELSE IF ~secret.parses
    THEN [entity |-> FALSE, err |-> Err("could not read signing key from secret"),
          panic |-> FALSE]
    ELSE IF secret.entities > 1
    THEN [entity |-> FALSE, err |-> Err("multiple entities read from secret"),
          panic |-> FALSE]
    ELSE IF secret.entities = 0
    THEN [entity |-> FALSE, err |-> NoErr, panic |-> TRUE]
    ELSE [entity |-> TRUE, err |-> NoErr, panic |-> FALSE]

\* signingEntity, err = r.getSigningEntity(ctx, auto), when a signing key
\* is referenced; err is the function's err variable and is not looked at
SigningEntity ==
    /\ run.pc = "sign"
    /\ UNCHANGED call
    /\ UNCHANGED <<object, gitRepository, policyLatest, remote, commits, reconciler, clock>>
    /\ \E signingKey \in BOOLEAN :
       IF ~signingKey
       THEN Goto([run EXCEPT !.signingKey = FALSE], "template")
       ELSE \E secret \in Secrets :
                LET got == getSigningEntity(secret)
                    r1 == [run EXCEPT !.signingKey = TRUE,
                                      !.ops = Append(@, "getSigningEntity")]
                IN  IF got.panic
                    THEN Return(r1, Panicked)
                    ELSE Goto([r1 EXCEPT !.signingEntity = got.entity,
                                         !.err = got.err,
                                         !.signingErr = got.err], "template")

\* template.Parse of the message template: the error
parseTemplate(msgTmpl) ==
    IF msgTmpl = "{{" THEN Err("unable to create commit message template from spec")
    ELSE NoErr

\* tmpl.Execute on the template values: the error
executeTemplate(msgTmpl) ==
    IF msgTmpl = "{{ .Missing }}" THEN Err("failed to run template from spec")
    ELSE NoErr

\* "construct the commit message from template and values"; tmpl, err :=
\* assigns the function's err variable anew
CommitMessage ==
    /\ run.pc = "template"
    /\ UNCHANGED call
    /\ UNCHANGED <<gitRepository, policyLatest, remote, commits, reconciler, clock>>
    /\ \E template \in Templates :
       LET msgTmpl == IF template = "" THEN defaultMessageTemplate ELSE template
           r1 == [run EXCEPT !.msgTmpl = msgTmpl, !.err = parseTemplate(msgTmpl)]
       IN  IF r1.err # NoErr
           THEN ReturnFailWithError(r1, r1.err)
           ELSE IF executeTemplate(msgTmpl) # NoErr
           THEN ReturnFailWithError(r1, executeTemplate(msgTmpl))
           ELSE Goto(r1, "commit") /\ UNCHANGED object

\* working.Status(): the changed manifest, and the broken symlinks that
\* go-git reports as modified
worktreeStatus(repo, broken) ==
    (IF repo.worktree # commits[repo.HEAD].tree THEN {"deploy.yaml"} ELSE {})
        \cup (IF broken THEN {"link"} ELSE {})

\* every file of the status is staged
isBrokenSymlink_Never(file) == FALSE

\* what os.Lstat and os.Stat say of a path of the working tree: "link" is
\* a symlink whose target does not exist
isBrokenSymlink(file) == file = "link"

\* commitChangedManifests from the loop over the status on: the files of
\* the status are added, broken symlinks left out; without a file added
\* the result is errNoChanges, else the commit is made.  With the fault
\* "lstat" os.Lstat fails on the first file looked at.
commitChanged(status, fault) ==
    LET added == {f \in status : ~isBrokenSymlink(f)}
    IN  IF fault = "lstat" /\ status # {}
        THEN [rev |-> 0, err |-> Err("checking if file is a symlink"), added |-> {}]
        ELSE IF added = {}
        THEN [rev |-> 0, err |-> errNoChanges, added |-> added]
        ELSE IF fault = "commit"
        THEN [rev |-> 0, err |-> Err("commit failed"), added |-> added]
        ELSE [rev |-> Len(commits) + 1, err |-> NoErr, added |-> added]

\* commitChangedManifests: the revision (0 for ""), the error and the files
\* added.  fault names the go-git call that fails, if any.
commitChangedManifests(repo, broken, fault) ==
    IF fault = "status"
    THEN [rev |-> 0, err |-> Err("worktree status failed"), added |-> {}]
    ELSE commitChanged(worktreeStatus(repo, broken), fault)

\* the status message of a run that had nothing to commit
noUpdatesMessage(status) ==
    IF status.LastPushCommit # 0
    THEN Msg("no updates made; last commit", status.LastPushCommit, "",
             status.LastPushTime, <<>>)
    ELSE Msg("no updates made", 0, "", 0, <<>>)

\* the no-changes outcome is treated as any other error of the commit
isNoChanges_Never(err) == FALSE

\* if err == errNoChanges
isNoChanges(err) == err = errNoChanges

\* commit the changes of the working tree; errNoChanges is a way to succeed
Commit ==
    /\ run.pc = "commit"
    /\ UNCHANGED call
    /\ UNCHANGED <<gitRepository, policyLatest, remote, reconciler, clock>>
    /\ \E broken \in BOOLEAN, fault \in {"none", "status", "lstat", "commit"} :
               LET got == commitChangedManifests(run.repo, broken, fault)
                   r1 == [run EXCEPT !.ops = Append(@, "commitChangedManifests"),
                                     !.commitErr = got.err]
               IN  IF got.err # NoErr /\ isNoChanges(got.err)
                   THEN /\ Goto([r1 EXCEPT !.statusMessage =
                                    noUpdatesMessage(run.auto.Status)], "finish")
                        /\ UNCHANGED <<object, commits>>
                   ELSE IF got.err # NoErr
                   THEN ReturnFailWithError(r1, got.err) /\ UNCHANGED commits
                   ELSE /\ commits' = Append(commits,
                              [tree |-> run.repo.worktree, parent |-> run.repo.HEAD])
                        /\ Goto([r1 EXCEPT !.rev = got.rev,
                                           !.added = got.added,
                                           !.signed = run.signingEntity,
                                           !.repo.HEAD = got.rev,
                                           !.repo.heads =
                                               IF run.repo.branch \in Branches
                                               THEN [@ EXCEPT ![run.repo.branch] = got.rev]
                                               ELSE @],
                                "push")
                        /\ UNCHANGED object

\* what the push of refs/heads/<branch> to origin can answer when it fails
RawPushErrors ==
    {ErrText("push", <<"unknown error:", " ", "remote:", " ">>),
     ErrText("push", <<"remote:", " ", "=", "=", "\n", "remote:", " ", "denied",
                       " ", "\n", "remote:", " ", "=", "=">>),
     ErrText("push", <<"authentication required">>)}

\* a refspec whose source names no local branch pushes nothing
noLocalBranch == ErrText("push", <<"already up-to-date">>)

\* what repo.PushContext / origin.Push return for the refspec
\* refs/heads/<branch>:refs/heads/<branch>, given the upstream's answer
pushAnswer(repo, branch, answer) ==
    IF branch \notin Branches \/ repo.heads[branch] = 0
    THEN noLocalBranch ELSE answer

\* the error of the library is returned as it is
push_Raw(repo, branch, impl, answer) == pushAnswer(repo, branch, answer)

\* push / pushGoGit / pushLibgit2: the error returned, given the answer
\* of the transfer (NoErr when it works)
push(repo, branch, impl, answer) ==
    LET raw == pushAnswer(repo, branch, answer)
    IN  IF impl = LibGit2Implementation THEN libgit2PushError(raw)
        ELSE IF impl = GoGitImplementation THEN gogitPushError(raw)
        ELSE Err("unknown git implementation")

\* the revision pushed is not recorded
pushedStatus_NoCommit(status, rev, now) ==
    [status EXCEPT !.LastPushTime = now]

\* auto.Status.LastPushCommit = rev; auto.Status.LastPushTime = now
pushedStatus(status, rev, now) ==
    [status EXCEPT !.LastPushCommit = rev, !.LastPushTime = now]

\* statusMessage = "committed and pushed " + rev + " to " + pushBranch
pushedMessage(rev, pushBranch) ==
    Msg("committed and pushed", rev, pushBranch, 0, <<>>)

\* the local branch is pushed to the default branch of the remote
pushRefSpec_ToDefault(branch) == [src |-> branch, dst |-> DefaultBranch]

\* the refspec "refs/heads/<branch>:refs/heads/<branch>" pushed to the
\* remote "origin"
pushRefSpec(branch) == [src |-> branch, dst |-> branch]

\* push the commit and record it in the status
Push ==
    /\ run.pc = "push"
    /\ UNCHANGED call
    /\ UNCHANGED <<gitRepository, policyLatest, commits, reconciler, clock>>
    /\ \E answer \in {NoErr} \cup RawPushErrors :
               LET raw == pushAnswer(run.repo, run.pushBranch, answer)
                   e == push(run.repo, run.pushBranch, run.origin.GitImplementation, answer)
                   r1 == [run EXCEPT !.ops = Append(@, "push"),
                                     !.pushAnswer = raw, !.pushErr = e]
               IN  IF e # NoErr
                   THEN ReturnFailWithError(r1, e) /\ UNCHANGED remote
                   ELSE /\ remote' = [remote EXCEPT
                                         !.heads[pushRefSpec(run.pushBranch).dst] =
                                             run.repo.heads[pushRefSpec(run.pushBranch).src]]
                        /\ Goto([r1 EXCEPT !.auto.Status =
                                               pushedStatus(@, run.rev, run.now),
                                           !.statusMessage =
                                               pushedMessage(run.rev, run.pushBranch)],
                                "finish")
                        /\ UNCHANGED object

\* the interval of the spec is returned whatever it is
intervalOrDefault_AsGiven(interval) == interval

\* intervalOrDefault gives the interval specified, or if missing, the default
intervalOrDefault(interval) ==
    IF interval < Second THEN Second ELSE interval

\* "Getting to here is a successful run."
Finish ==
    /\ run.pc = "finish"
    /\ UNCHANGED call
    /\ UNCHANGED <<gitRepository, policyLatest, remote, commits, reconciler, clock>>
    /\ LET r1 == [run EXCEPT !.auto = SetImageUpdateAutomationReadiness(
                      [run.auto EXCEPT !.Status.LastAutomationRunTime = run.now],
                      "True", ReconciliationSucceededReason, run.statusMessage)]
       IN  \E api \in BOOLEAN :
               /\ object' = patchStatus(r1.auto.Status, api)
               /\ IF PatchOK(api)
                  THEN \E interval \in Intervals :
                           Return([Patched(r1, api) EXCEPT !.interval = interval],
                                  Result(FALSE, intervalOrDefault(interval), NoErr))
                  ELSE Return(Patched(r1, api), Result(TRUE, 0, apiError))

\* ---------------------------------------------------------- specification

Next ==
    \/ GetAutomation
    \/ AckReconcileRequest
    \/ GetSource
    \/ ResolveRefs
    \/ TempDir
    \/ GetRepoAccess
    \/ CloneInto
    \/ Fetch
    \/ SwitchBranch
    \/ UpdateManifests
    \/ SigningEntity
    \/ CommitMessage
    \/ Commit
    \/ Push
    \/ Finish

Spec == Init /\ [][Next]_vars

\* ------------------------------------------- functions called on their own
\* The watch handlers, and the functions of Reconcile whose arguments the
\* steps above draw from few values, are applied here to arguments drawn
\* from larger sets, one call in a behaviour; call keeps it.

\* Length of the error texts handed to gogitPushError.
MaxLen == 4

\* the rest of the state stays as it is
reconcileVars ==
    <<object, gitRepository, policyLatest, remote, commits, tmpDirs, metrics,
      reconciler, clock, run>>

\* the ImageUpdateAutomation objects a cluster can hold: at most one of a
\* name in a namespace, each referring to a source by name
Namespaces == {"ns1", "ns2"}
AutomationNames == {"a", "b"}
SourceNames == {"repo", "other"}
Clusters ==
    {c \in SUBSET [Namespace : Namespaces, Name : AutomationNames,
                   SourceRefName : SourceNames] :
        \A x \in c, y \in c :
            (x.Namespace = y.Namespace /\ x.Name = y.Name) => x = y}

\* the index is built on the automation's own name
repoRefIndex_OwnName(auto) == <<auto.Name>>

\* the index function given to IndexField for repoRefKey
repoRefIndex(auto) == <<auto.SourceRefName>>

\* the namespace is not looked at
List_AnyNamespace(autos, namespace, field) ==
    {a \in autos :
        field # "" => \E i \in DOMAIN repoRefIndex(a) : repoRefIndex(a)[i] = field}

\* r.List(ctx, &autoList, client.InNamespace(namespace)), with
\* client.MatchingFields{repoRefKey: field} unless field is "": the items
List(autos, namespace, field) ==
    {a \in autos :
        /\ a.Namespace = namespace
        /\ field # "" => \E i \in DOMAIN repoRefIndex(a) : repoRefIndex(a)[i] = field}

\* autoList.Items: the objects listed, in some order
RECURSIVE Items(_)
Items(objs) ==
    IF objs = {} THEN <<>>
    ELSE LET x == CHOOSE x \in objs : TRUE
         IN  <<x>> \o Items(objs \ {x})

\* the reconcile requests made of the items of a list
requests(items) ==
    [i \in DOMAIN items |->
        [Namespace |-> items[i].Namespace, Name |-> items[i].Name]]

\* automationsForGitRepo(obj); nil when the list call fails
automationsForGitRepo(autos, obj, listOK) ==
    IF ~listOK THEN <<>>
    ELSE requests(Items(List(autos, obj.Namespace, obj.Name)))

\* automationsForImagePolicy(obj); nil when the list call fails
automationsForImagePolicy(autos, obj, listOK) ==
    IF ~listOK THEN <<>>
    ELSE requests(Items(List(autos, obj.Namespace, "")))

\* a GitRepository object changed
WatchGitRepository ==
    /\ call = NoCall
    /\ UNCHANGED reconcileVars
    /\ \E autos \in Clusters, ns \in Namespaces, n \in SourceNames, listOK \in BOOLEAN :
           LET obj == [Namespace |-> ns, Name |-> n]
           IN  call' = [fn |-> "automationsForGitRepo",
                        in |-> [autos |-> autos, obj |-> obj, listOK |-> listOK],
                        out |-> automationsForGitRepo(autos, obj, listOK)]

\* an ImagePolicy object changed
WatchImagePolicy ==
    /\ call = NoCall
    /\ UNCHANGED reconcileVars
    /\ \E autos \in Clusters, ns \in Namespaces, n \in {"policy"}, listOK \in BOOLEAN :
           LET obj == [Namespace |-> ns, Name |-> n]
           IN  call' = [fn |-> "automationsForImagePolicy",
                        in |-> [autos |-> autos, obj |-> obj, listOK |-> listOK],
                        out |-> automationsForImagePolicy(autos, obj, listOK)]

\* getSigningEntity on a secret
CallGetSigningEntity ==
    /\ call = NoCall
    /\ UNCHANGED reconcileVars
    /\ \E secret \in Secrets :
           call' = [fn |-> "getSigningEntity", in |-> secret,
                    out |-> getSigningEntity(secret)]

\* the files working.Status() can report: manifests, a symlink whose target
\* exists, and the symlink "link" whose target does not
Files == {"deploy.yaml", "kustomization.yaml", "symlink", "link"}

\* commitChangedManifests on a worktree status
CallCommitChangedManifests ==
    /\ call = NoCall
    /\ UNCHANGED reconcileVars
    /\ \E status \in SUBSET Files, fault \in {"none", "lstat", "commit"} :
           call' = [fn |-> "commitChangedManifests",
                    in |-> [status |-> status, fault |-> fault],
                    out |-> commitChanged(status, fault)]

\* the texts of an error: up to MaxLen tokens
TextTokens == {"unknown error:", "remote:", " ", "\n", "denied"}
Texts == UNION {[1..n -> TextTokens] : n \in 0..MaxLen}

\* gogitPushError on an error of go-git, or nil
CallGogitPushError ==
    /\ call = NoCall
    /\ UNCHANGED reconcileVars
    /\ \E err \in {NoErr} \cup {ErrText(k, t) : k \in {"push", "transport"}, t \in Texts} :
           call' = [fn |-> "gogitPushError", in |-> [err |-> err],
                    out |-> [err |-> gogitPushError(err)]]

\* the object as Reconcile read it, where a status is patched
ObjectsRead ==
    [exists : {TRUE},
     Spec : {[Suspend |-> FALSE, SourceRefKind |-> GitRepositoryKind,
              GitSpec |-> NilGitSpec]},
     Annotation : {"", "token-1"},
     Deleting : {FALSE},
     Status : {ZeroStatus, pushedStatus(ZeroStatus, 2, 1)}]

\* what another actor did to the object since: nothing, suspended it,
\* asked for a reconciliation, or deleted it
Edits == {"none", "suspend", "annotate", "delete"}
Edited(obj, edit) ==
    IF edit = "suspend" THEN [obj EXCEPT !.Spec.Suspend = TRUE]
    ELSE IF edit = "annotate" THEN [obj EXCEPT !.Annotation = "token-2"]
    ELSE IF edit = "delete" THEN [obj EXCEPT !.exists = FALSE]
    ELSE obj

\* the statuses a run writes: with the request acknowledged, with a push
\* recorded, with the readiness set
StatusesWritten(status, token) ==
    {ackedStatus(status, token),
     pushedStatus(ackedStatus(status, token), 3, 2),
     [ackedStatus(status, token) EXCEPT !.LastAutomationRunTime = 2]}

\* patchStatus on an object that another actor changed after Reconcile
\* read it
CallPatchStatus ==
    /\ call = NoCall
    /\ UNCHANGED reconcileVars
    /\ \E read \in ObjectsRead, edit \in Edits, api \in BOOLEAN :
       \E newStatus \in StatusesWritten(read.Status, read.Annotation) :
           LET current == Edited(read, edit)
           IN  call' = [fn |-> "patchStatus",
                        in |-> [read |-> read, current |-> current,
                                newStatus |-> newStatus, api |-> api],
                        out |-> patchedObject(objectAtPatch(read, current), newStatus,
                                              api /\ current.exists)]

\* the texts of an error of libgit2: up to MaxLen tokens
Libgit2Tokens == {"remote:", " ", "=", "\n", "denied"}
Libgit2Texts == UNION {[1..n -> Libgit2Tokens] : n \in 0..MaxLen}

\* libgit2PushError on an error of libgit2, or nil
CallLibgit2PushError ==
    /\ call = NoCall
    /\ UNCHANGED reconcileVars
    /\ \E err \in {NoErr} \cup {ErrText("push", t) : t \in Libgit2Texts} :
           call' = [fn |-> "libgit2PushError", in |-> [err |-> err],
                    out |-> [err |-> libgit2PushError(err)]]

FunctionsInit == Init /\ ~object.exists /\ ~object.Spec.Suspend

FunctionsNext ==
    \/ WatchGitRepository
    \/ WatchImagePolicy
    \/ CallGetSigningEntity
    \/ CallCommitChangedManifests
    \/ CallGogitPushError
    \/ CallLibgit2PushError
    \/ CallPatchStatus

FunctionsSpec == FunctionsInit /\ [][FunctionsNext]_vars

\* ------------------------------------------------------------ properties

\* the run has left Reconcile (by a return or by a panic)
Done == run.pc = "done"

\* the run called the operation op
InOps(op) == \E i \in DOMAIN run.ops : run.ops[i] = op

\* the run passed the position step
Passed(step) == \E i \in DOMAIN run.steps : run.steps[i] = step

\* the deferred call f ran on the way out
Ran(f) == \E i \in DOMAIN run.ran : run.ran[i] = f

\* the last status patch the run attempted
LastPatch == run.patches[Len(run.patches)]

\* the run returned "requeue after the interval", without an error
Succeeded == run.result = Result(FALSE, intervalOrDefault(run.interval), NoErr)

\* C1 (amended).  In every run whose commit step returns errNoChanges, push
\* is never invoked and the outcome is not handed to failWithError: the run
\* sets readiness True with the succeeded reason and attempts the final
\* status patch with it.  When that patch succeeds the run returns success
\* (requeue after the interval) and the persisted readiness is True; when it
\* fails the run returns the patch's error with an immediate requeue.
C1_NoChangesNoPush ==
    (Done /\ run.commitErr = errNoChanges) =>
        /\ ~InOps("push")
        /\ run.rev = 0
        /\ run.auto.Status.Ready.Status = "True"
        /\ run.auto.Status.Ready.Reason = ReconciliationSucceededReason
        /\ run.auto.Status.Ready.Message = run.statusMessage
        /\ run.statusMessage.kind \in {"no updates made", "no updates made; last commit"}
        /\ LastPatch.status = run.auto.Status
        /\ IF LastPatch.ok
           THEN Succeeded /\ object.Status.Ready.Status = "True"
           ELSE run.result = Result(TRUE, 0, apiError)

\* a run without changes that ended in success
C1_Witness ==
    /\ Done /\ run.commitErr = errNoChanges
    /\ InOps("commitChangedManifests")
    /\ LastPatch.ok /\ Succeeded
    /\ object.Status.Ready.Status = "True"

\* C1 as stated, for the runs that did not call failWithError before the
\* commit: a run whose commit step returns errNoChanges never invokes push
\* and ends as a successful run with readiness True.
C1_Original ==
    (Done /\ run.commitErr = errNoChanges /\ run.failWithErrorCalls = 0) =>
        /\ ~InOps("push")
        /\ Succeeded
        /\ run.auto.Status.Ready.Status = "True"

\* the git operations and network I/O of a run
GitOps ==
    {"getRepoAccess", "cloneInto", "fetch", "switchBranch",
     "commitChangedManifests", "push"}

\* C2 as stated: a run with no push spec whose resolved checkout reference
\* has no branch, or is absent, fails validation and ends right there,
\* before a temporary directory is made or any git operation is performed.
C2_Original ==
    (/\ Passed("resolve")
     /\ run.auto.Spec.GitSpec.Push.nil
     /\ (run.ref.nil \/ run.ref.Branch = "")) =>
        /\ Done
        /\ run.result = Result(TRUE, 0, pushBranchError)
        /\ run.tmp = 0
        /\ \A op \in GitOps : ~InOps(op)

\* C3.  A run on an object whose spec has suspend = true performs no clone,
\* fetch, commit or push (no operation at all), attempts no status patch and
\* leaves the readiness condition as it read it, returns no error and no
\* requeue, and runs recordSuspension on the way out, which (given a metrics
\* recorder) records the object as suspended, or as not suspended when it is
\* being deleted.
C3_Suspended ==
    (Done /\ run.auto.Spec.Suspend) =>
        /\ run.ops = <<>>
        /\ run.tmp = 0
        /\ run.patches = <<>>
        /\ run.auto.Status = object.Status
        /\ run.result = Result(FALSE, 0, NoErr)
        /\ Ran("recordSuspension")
        /\ reconciler.MetricsRecorder =>
               metrics.suspend = (IF run.auto.Deleting THEN "false" ELSE "true")

\* a suspended object was reconciled and recorded as suspended
C3_Witness ==
    /\ Done /\ run.auto.Spec.Suspend /\ run.steps = <<"idle">>
    /\ Ran("recordSuspension")
    /\ metrics.suspend = "true"

\* C4 as stated: a run in which a step before the commit failed has called
\* failWithError: readiness False with the reconciliation-failed reason and
\* the error's string as message, a status patch attempted with it, and the
\* error returned with an immediate requeue.
C4_Original ==
    (Done /\ run.failed # NoErr /\ ~InOps("commitChangedManifests")) =>
        /\ run.failWithErrorCalls >= 1
        /\ run.auto.Status.Ready =
               [Status |-> "False", Reason |-> ReconciliationFailedReason,
                Message |-> ErrorMsg(run.failed)]
        /\ run.patches # <<>> /\ LastPatch.status = run.auto.Status
        /\ run.result = Result(TRUE, 0, run.failed)

\* C5 as stated, for the runs that did not call failWithError before: when a
\* signing key is referenced and resolving the signing identity fails, no
\* commit is created and push is not invoked, and the run ends failed, with
\* readiness False and an error returned.
C5_Original ==
    (run.signingKey /\ run.signingErr # NoErr /\ run.failWithErrorCalls = 0) =>
        /\ run.rev = 0
        /\ ~InOps("push")
        /\ Done => /\ run.auto.Status.Ready.Status = "False"
                   /\ run.result.err # NoErr

\* C6.  In every run where the commit step produces a revision rev, the push
\* to the push branch b succeeds and the final status patch succeeds, the
\* persisted status has lastPushCommit = rev, lastPushTime and
\* lastAutomationRunTime = the run's start time, and readiness True with the
\* succeeded reason and the message "committed and pushed <rev> to <b>".
C6_PushRecorded ==
    (Done /\ run.rev # 0 /\ InOps("push") /\ run.pushAnswer = NoErr /\ LastPatch.ok) =>
        /\ object.Status.LastPushCommit = run.rev
        /\ object.Status.LastPushTime = run.now
        /\ object.Status.LastAutomationRunTime = run.now
        /\ object.Status.Ready =
               [Status |-> "True", Reason |-> ReconciliationSucceededReason,
                Message |-> [kind |-> "committed and pushed", rev |-> run.rev,
                             branch |-> run.pushBranch, time |-> 0, text |-> <<>>]]
        /\ run.pushBranch \in Branches
        /\ remote.heads[run.pushBranch] = run.rev

\* a commit was pushed to the push branch of the spec and recorded
C6_Witness ==
    /\ Done /\ run.rev # 0 /\ InOps("push") /\ run.pushAnswer = NoErr /\ LastPatch.ok
    /\ run.pushBranch = "flux-updates"
    /\ object.Status.LastPushCommit = run.rev
    /\ Succeeded

\* the push error as it is surfaced, spelled out for each answer of the
\* upstream: go-git's "unknown error: remote:" becomes the write-access hint,
\* libgit2's banner of several lines is reduced to its message, and every
\* other error is kept
SurfacedPushError(impl, raw) ==
    IF impl = GoGitImplementation
       /\ raw = ErrText("push", <<"unknown error:", " ", "remote:", " ">>)
    THEN ErrText("push", <<"push rejected; check git secret has write access">>)
    ELSE IF impl = LibGit2Implementation
            /\ raw = ErrText("push", <<"remote:", " ", "=", "=", "\n", "remote:", " ",
                                       "denied", " ", "\n", "remote:", " ", "=", "=">>)
    THEN ErrText("push", <<"remote:", " ", "denied">>)
    ELSE raw

\* C7.  In every run where a commit was created but the push returns an
\* error, readiness becomes False with the reconciliation-failed reason and
\* the normalized push error as message, the run returns that error with an
\* immediate requeue, and no status the run patches has readiness True or
\* the new revision as lastPushCommit.
C7_PushFailed ==
    (Done /\ run.rev # 0 /\ InOps("push") /\ run.pushAnswer # NoErr) =>
        LET e == SurfacedPushError(run.origin.GitImplementation, run.pushAnswer)
        IN  /\ run.auto.Status.Ready =
                   [Status |-> "False", Reason |-> ReconciliationFailedReason,
                    Message |-> [kind |-> e.kind, rev |-> 0, branch |-> "",
                                 time |-> 0, text |-> e.text]]
            /\ run.result = Result(TRUE, 0, e)
            /\ LastPatch.status = run.auto.Status
            /\ \A i \in DOMAIN run.patches :
                   /\ run.patches[i].status.Ready.Status # "True"
                   /\ run.patches[i].status.LastPushCommit # run.rev
            /\ object.Status.LastPushCommit # run.rev
            /\ LastPatch.ok => object.Status.Ready.Status = "False"

\* a push upstream was rejected by go-git's "unknown error: remote:" and the
\* run failed with the write-access hint
C7_Witness ==
    /\ Done /\ run.rev # 0 /\ InOps("push")
    /\ run.origin.GitImplementation = GoGitImplementation
    /\ run.pushAnswer = ErrText("push", <<"unknown error:", " ", "remote:", " ">>)
    /\ run.result.Requeue /\ run.result.err.text = pushRejectedText
    /\ LastPatch.ok /\ object.Status.Ready.Status = "False"

\* C8.  Once a run has created its temporary working directory, the
\* directory no longer exists when the run has left Reconcile, whichever way
\* it left (success, no changes, unknown strategy, failure or panic).
C8_TmpDirRemoved ==
    (Done /\ run.tmp # 0) => (run.tmp \notin tmpDirs /\ Ran("os.RemoveAll"))

\* a run that failed after creating its directory has removed it
C8_Witness ==
    /\ Done /\ run.tmp # 0 /\ Passed("tmp")
    /\ run.failWithErrorCalls >= 1
    /\ run.tmp \notin tmpDirs

\* C9 (amended).  In every run in which the referenced GitRepository object
\* does not exist, readiness is set to False with the git-not-available
\* reason and a status patch is attempted with it, and no clone, fetch,
\* commit or push is performed.  When the patch succeeds the run returns no
\* error and no requeue; when it fails the run returns the patch's error
\* with an immediate requeue.
C9_SourceMissing ==
    (Done /\ run.originErr = notFound) =>
        /\ run.auto.Status.Ready.Status = "False"
        /\ run.auto.Status.Ready.Reason = GitNotAvailableReason
        /\ run.ops = <<>> /\ run.tmp = 0
        /\ run.failWithErrorCalls = 0
        /\ run.patches # <<>>
        /\ LastPatch.status = run.auto.Status
        /\ IF LastPatch.ok
           THEN /\ run.result = Result(FALSE, 0, NoErr)
                /\ object.Status.Ready.Reason = GitNotAvailableReason
           ELSE run.result = Result(TRUE, 0, apiError)

\* the source was missing, the status patch went through
C9_Witness ==
    /\ Done /\ run.originErr = notFound /\ ~gitRepository.exists
    /\ LastPatch.ok
    /\ object.Status.Ready.Reason = GitNotAvailableReason
    /\ run.result = Result(FALSE, 0, NoErr)

\* C9 as stated: when the GitRepository object does not exist, readiness is
\* set to False with the git-not-available reason, no git operation is
\* performed, and the run returns no error and no requeue.
C9_Original ==
    (Done /\ run.originErr = notFound) =>
        /\ run.auto.Status.Ready.Status = "False"
        /\ run.auto.Status.Ready.Reason = GitNotAvailableReason
        /\ run.ops = <<>>
        /\ run.result = Result(FALSE, 0, NoErr)

\* C10 as stated, for the runs that did not call failWithError before and
\* whose status patches go through: a run whose update spec is missing or
\* names a strategy other than "Setters" ends with
\* readiness False and the no-strategy reason, without mutation, commit or
\* push, and returns no error and no requeue.
C10_Original ==
    (/\ Passed("update")
     /\ (run.update.nil \/ run.update.Strategy # UpdateStrategySetters)
     /\ run.failWithErrorCalls = 0
     /\ \A i \in DOMAIN run.patches : run.patches[i].ok) =>
        /\ Done
        /\ run.auto.Status.Ready.Status = "False"
        /\ run.auto.Status.Ready.Reason = NoStrategyReason
        /\ ~InOps("updateAccordingToSetters")
        /\ ~InOps("commitChangedManifests") /\ ~InOps("push")
        /\ run.result = Result(FALSE, 0, NoErr)

\* C11.  In a run on an existing, non-suspended object that carries a
\* reconcile-request annotation with token t, once the acknowledging patch
\* has succeeded the persisted status has lastHandledReconcileRequest = t,
\* in every later state of the run and when the run has ended, however it
\* ended: every status the run patches carries t.
C11_AckPersisted ==
    (/\ Passed("ack") /\ run.auto.Annotation # ""
     /\ run.patches # <<>> /\ run.patches[1].ok) =>
        /\ object.Status.LastHandledReconcileRequest = run.auto.Annotation
        /\ \A i \in DOMAIN run.patches :
               run.patches[i].status.LastHandledReconcileRequest = run.auto.Annotation

\* a run acknowledged its token, failed later and patched the failure
C11_Witness ==
    /\ Done /\ run.auto.Annotation = "token-1"
    /\ Len(run.patches) >= 2 /\ run.patches[1].ok /\ LastPatch.ok
    /\ run.failWithErrorCalls >= 1
    /\ LastPatch.status.Ready.Status = "False"
    /\ object.Status.LastHandledReconcileRequest = "token-1"

\* C12.  With an explicit push branch b: fetch returns the branch-missing
\* outcome exactly when b does not exist upstream, and the run goes on;
\* switchBranch then leaves b checked out, created at the HEAD of the clone
\* when the branch was missing and taken from the fetched ref otherwise; and
\* a successful push makes refs/heads/b upstream the new revision, so that a
\* following run finds the branch and fetches it.
C12_BranchRoundTrip ==
    LET b == run.pushBranch
    IN  /\ run.pc = "switch" =>
               /\ (run.fetchErr = errRemoteBranchMissing) = (remote.heads[b] = 0)
               /\ (run.fetchErr = NoErr) = (remote.heads[b] # 0)
               /\ run.repo.heads[b] = remote.heads[b]
        /\ (run.pc = "update" /\ Passed("switch")) =>
               /\ run.repo.branch = b
               /\ run.repo.HEAD = run.repo.heads[b]
               /\ run.repo.worktree = commits[run.repo.HEAD].tree
               /\ run.repo.HEAD = (IF run.fetchErr = errRemoteBranchMissing
                                   THEN resolveUpstream(run.ref)
                                   ELSE remote.heads[b])
        /\ (Passed("switch") /\ Passed("push") /\ run.pushAnswer = NoErr) =>
               /\ run.rev # 0
               /\ remote.heads[b] = run.rev

\* the second run fetched the branch the first run created upstream, and
\* has it checked out in place of the HEAD of the clone
C12_Witness ==
    /\ run.now = 2 /\ run.pc = "update" /\ Passed("switch")
    /\ run.pushBranch = "flux-updates"
    /\ run.fetchErr = NoErr
    /\ remote.heads["flux-updates"] = 2
    /\ run.repo.HEAD = 2
    /\ resolveUpstream(run.ref) = 1

\* C13.  In a run that reaches the commit step while the push branch
\* upstream is at a commit an earlier run pushed (same spec, same policies,
\* upstream otherwise unchanged), the commit step makes no revision (it
\* returns errNoChanges, unless reading the worktree status or os.Lstat
\* fails), push is not invoked, and lastPushCommit and lastPushTime stay as the run read
\* them, locally and in the persisted status.
C13_SecondRunNoChanges ==
    (/\ Passed("commit") /\ run.pushBranch \in Branches
     /\ remote.heads[run.pushBranch] > 1
     /\ remote.heads[run.pushBranch] # run.rev) =>
        /\ run.rev = 0
        /\ run.commitErr \in {errNoChanges, Err("worktree status failed"),
                             Err("checking if file is a symlink")}
        /\ ~InOps("push")
        /\ run.auto.Status.LastPushCommit = run.lastPushRead.commit
        /\ run.auto.Status.LastPushTime = run.lastPushRead.time
        /\ object.Status.LastPushCommit = run.lastPushRead.commit
        /\ object.Status.LastPushTime = run.lastPushRead.time

\* the first run pushed commit 2, the second found nothing to commit and
\* left the record of the push as it was
C13_Witness ==
    /\ Done /\ run.now = 2 /\ run.commitErr = errNoChanges
    /\ run.pushBranch \in Branches
    /\ remote.heads[run.pushBranch] = 2
    /\ run.lastPushRead = [commit |-> 2, time |-> 1]
    /\ LastPatch.ok
    /\ object.Status.LastPushCommit = 2 /\ object.Status.LastPushTime = 1

\* C14.  Every run that ends successfully (it reached the final status
\* patch, after a push or without changes, and the patch succeeded) returns
\* no error, no immediate requeue, and a requeue-after equal to the spec
\* interval when that is at least one second and to one second otherwise.
C14_RequeueInterval ==
    (Done /\ Passed("finish") /\ LastPatch.ok) =>
        /\ ~run.result.panic
        /\ run.result.err = NoErr
        /\ ~run.result.Requeue
        /\ run.result.RequeueAfter =
               (IF run.interval >= Second THEN run.interval ELSE Second)
        /\ run.result.RequeueAfter >= Second

\* a successful run with an interval of half a second is requeued after
\* one second
C14_Witness ==
    /\ Done /\ Passed("finish") /\ LastPatch.ok
    /\ run.interval = 500
    /\ run.result.RequeueAfter = 1000

\* C16.  When failWithError(e) is the way out of the run and its status
\* patch fails, the run returns e itself with an immediate requeue.
C16_OriginalErrorKept ==
    (/\ Done /\ run.failed # NoErr
     /\ run.patches # <<>> /\ ~LastPatch.ok
     /\ LastPatch.status.Ready.Reason = ReconciliationFailedReason
     /\ LastPatch.status.Ready.Message.kind = run.failed.kind) =>
        run.result = Result(TRUE, 0, run.failed)

\* the clone failed, the patch of the failure failed too, and the clone's
\* error was returned
C16_Witness ==
    /\ Done /\ run.failed = Err("unable to clone")
    /\ run.failWithErrorCalls = 1
    /\ ~LastPatch.ok
    /\ run.result.err = Err("unable to clone") /\ run.result.Requeue


\* C15: getSigningEntity gives the signing identity exactly when the key
\* material of the secret holds one identity; with none, or with two or
\* more, it returns an error: no identity and no crash.
C15_Original ==
    call.fn = "getSigningEntity" =>
        /\ ~call.out.panic
        /\ call.out.entity <=>
               (call.in.exists /\ call.in.hasKey /\ call.in.parses /\ call.in.entities = 1)
        /\ ~call.out.entity => call.out.err # NoErr


\* C17: commitChangedManifests never stages a file of the worktree status
\* that is a symlink whose target does not exist ("link"); when the status
\* holds nothing else no commit is made and the result is errNoChanges
\* (unless os.Lstat fails); when it holds another file and no call fails,
\* a commit is made of every file of the status but the broken symlink.
C17_BrokenSymlinksSkipped ==
    call.fn = "commitChangedManifests" =>
        LET others == call.in.status \ {"link"}
        IN  /\ "link" \notin call.out.added
            /\ others = {} =>
                   /\ call.in.fault # "lstat" => call.out.err = errNoChanges
                   /\ call.out.err # NoErr
                   /\ call.out.rev = 0
                   /\ call.out.added = {}
            /\ (others # {} /\ call.in.fault = "none") =>
                   /\ call.out.err = NoErr
                   /\ call.out.rev # 0
                   /\ call.out.added = others
            /\ (others # {} /\ call.in.fault # "none") =>
                   /\ call.out.err \notin {NoErr, errNoChanges}
                   /\ call.out.rev = 0

C17_Witness ==
    /\ call.fn = "commitChangedManifests"
    /\ call.in.status = {"link", "symlink", "deploy.yaml"}
    /\ call.in.fault = "none"
    /\ call.out.rev # 0
    /\ call.out.added = {"symlink", "deploy.yaml"}


\* the requests of a list, as a set
RequestSet(out) == {out[i] : i \in DOMAIN out}

\* the namespaced names of a set of automations
NamesOf(autos) == {[Namespace |-> a.Namespace, Name |-> a.Name] : a \in autos}

\* C18: when its list call succeeds, automationsForGitRepo for the
\* GitRepository n of namespace ns returns one request for each automation
\* of ns whose spec.sourceRef.name is n and no other request; when the list
\* call fails it returns no request.
C18_RequestsForGitRepo ==
    call.fn = "automationsForGitRepo" =>
        LET expected == {a \in call.in.autos :
                            /\ a.Namespace = call.in.obj.Namespace
                            /\ a.SourceRefName = call.in.obj.Name}
        IN  IF call.in.listOK
            THEN /\ RequestSet(call.out) = NamesOf(expected)
                 /\ Len(call.out) = Cardinality(expected)
            ELSE call.out = <<>>

C18_Witness ==
    /\ call.fn = "automationsForGitRepo"
    /\ call.in.listOK
    /\ call.in.obj = [Namespace |-> "ns1", Name |-> "repo"]
    /\ call.in.autos =
           {[Namespace |-> "ns1", Name |-> "a", SourceRefName |-> "repo"],
            [Namespace |-> "ns1", Name |-> "b", SourceRefName |-> "other"],
            [Namespace |-> "ns2", Name |-> "a", SourceRefName |-> "repo"]}
    /\ call.out = <<[Namespace |-> "ns1", Name |-> "a"]>>

\* C18 as stated: automationsForGitRepo returns requests for exactly the
\* automations of ns whose spec.sourceRef.name is n, none missing.
C18_Original ==
    call.fn = "automationsForGitRepo" =>
        RequestSet(call.out) =
            NamesOf({a \in call.in.autos :
                        /\ a.Namespace = call.in.obj.Namespace
                        /\ a.SourceRefName = call.in.obj.Name})

\* C19: when its list call succeeds, automationsForImagePolicy for an image
\* policy of namespace ns returns one request for each automation of ns,
\* whatever source it refers to, and none for an automation of another
\* namespace; when the list call fails it returns no request.
C19_RequestsForImagePolicy ==
    call.fn = "automationsForImagePolicy" =>
        LET expected == {a \in call.in.autos : a.Namespace = call.in.obj.Namespace}
        IN  IF call.in.listOK
            THEN /\ RequestSet(call.out) = NamesOf(expected)
                 /\ Len(call.out) = Cardinality(expected)
            ELSE call.out = <<>>

C19_Witness ==
    /\ call.fn = "automationsForImagePolicy"
    /\ call.in.listOK
    /\ call.in.obj.Namespace = "ns1"
    /\ call.in.autos =
           {[Namespace |-> "ns1", Name |-> "a", SourceRefName |-> "repo"],
            [Namespace |-> "ns1", Name |-> "b", SourceRefName |-> "other"],
            [Namespace |-> "ns2", Name |-> "a", SourceRefName |-> "repo"]}
    /\ Len(call.out) = 2
    /\ RequestSet(call.out) =
           {[Namespace |-> "ns1", Name |-> "a"], [Namespace |-> "ns1", Name |-> "b"]}

\* C19 as stated: automationsForImagePolicy returns one request for every
\* automation of ns and none for an automation of another namespace.
C19_Original ==
    call.fn = "automationsForImagePolicy" =>
        /\ \A a \in call.in.autos :
               a.Namespace = call.in.obj.Namespace =>
                   Cardinality({i \in DOMAIN call.out :
                       call.out[i] = [Namespace |-> a.Namespace, Name |-> a.Name]}) = 1
        /\ \A i \in DOMAIN call.out : call.out[i].Namespace = call.in.obj.Namespace

\* an error text with blanks trimmed off both ends is the text wanted
TrimmedIs(text, wanted) ==
    \E a \in 0..Len(text), b \in 0..Len(text) :
        /\ a + Len(wanted) + b = Len(text)
        /\ \A i \in 1..a : text[i] \in {" ", "\t", "\n"}
        /\ \A i \in (Len(text) - b + 1)..Len(text) : text[i] \in {" ", "\t", "\n"}
        /\ SubSeq(text, a + 1, a + Len(wanted)) = wanted

\* C20: gogitPushError returns nil for nil; for an error whose text with
\* white space trimmed is "unknown error: remote:" it returns the error
\* "push rejected; check git secret has write access"; any other error it
\* returns as it is.
C20_GogitPushError ==
    call.fn = "gogitPushError" =>
        IF call.in.err = NoErr
        THEN call.out.err = NoErr
        ELSE IF TrimmedIs(call.in.err.text, <<"unknown error:", " ", "remote:">>)
        THEN call.out.err.text = pushRejectedText
        ELSE call.out.err = call.in.err

C20_Witness ==
    /\ call.fn = "gogitPushError"
    /\ call.in.err.text = <<"unknown error:", " ", "remote:", "\n">>
    /\ call.out.err.text = pushRejectedText


\* the lines of a text: what lies between two line breaks, the start and
\* the end of the text counting as line breaks
LinesOf(text) ==
    LET breaks == {0, Len(text) + 1} \cup {i \in 1..Len(text) : text[i] = "\n"}
        starts == {i \in breaks : i <= Len(text)}
        nth(k) == CHOOSE i \in starts : Cardinality({j \in starts : j < i}) = k - 1
        end(i) == CHOOSE j \in breaks : j > i /\ \A h \in breaks : h > i => j <= h
    IN  [k \in 1..Cardinality(starts) |-> SubSeq(text, nth(k) + 1, end(nth(k)) - 1)]

\* a line without its "remote:" prefix and without the spaces, tabs and
\* '=' around what is left
Stripped(line) ==
    LET from == IF line # <<>> /\ line[1] = "remote:" THEN 2 ELSE 1
        kept == {i \in from..Len(line) : line[i] \notin {" ", "\t", "="}}
    IN  IF kept = {} THEN <<>>
        ELSE SubSeq(line, CHOOSE i \in kept : \A j \in kept : i <= j,
                          CHOOSE i \in kept : \A j \in kept : j <= i)

\* lines joined by single spaces
RECURSIVE JoinedBySpaces(_)
JoinedBySpaces(lines) ==
    IF lines = <<>> THEN <<>>
    ELSE IF Len(lines) = 1 THEN lines[1]
    ELSE lines[1] \o <<" ">> \o JoinedBySpaces(Tail(lines))

NotEmpty(line) == line # <<>>

\* "remote: " and the stripped lines of a text that are not empty
Readable(text) ==
    <<"remote:", " ">> \o
        JoinedBySpaces(SelectSeq([k \in DOMAIN LinesOf(text) |-> Stripped(LinesOf(text)[k])],
                                 NotEmpty))

\* C21: libgit2PushError returns nil for nil and an error of one line as
\* it is; for an error of two or more lines the text of the result is
\* "remote: " followed by the lines of the error, each without its
\* "remote:" prefix and the spaces, tabs and '=' around it, the empty ones
\* dropped and the others joined by single spaces.
C21_Libgit2PushError ==
    call.fn = "libgit2PushError" =>
        IF call.in.err = NoErr
        THEN call.out.err = NoErr
        ELSE IF \A i \in DOMAIN call.in.err.text : call.in.err.text[i] # "\n"
        THEN call.out.err = call.in.err
        ELSE call.out.err.text = Readable(call.in.err.text)

C21_Witness ==
    /\ call.fn = "libgit2PushError"
    /\ call.in.err.text = <<"remote:", "denied", "\n", "denied">>
    /\ call.out.err.text = <<"remote:", " ", "denied", " ", "denied">>

\* C21 as stated: for every error that is not nil, an error of one line
\* included, the text of the result is "remote: " followed by the stripped
\* lines that are not empty, joined by single spaces.
C21_Original ==
    (call.fn = "libgit2PushError" /\ call.in.err # NoErr) =>
        call.out.err.text = Readable(call.in.err.text)


\* C22 as stated: a run on a suspended object that carries a
\* reconcile-request annotation with token t has persisted
\* lastHandledReconcileRequest = t when it ends with the neutral result.
C22_Original ==
    (/\ Done /\ run.auto.Spec.Suspend /\ run.auto.Annotation # ""
     /\ run.result = Result(FALSE, 0, NoErr)) =>
        object.Status.LastHandledReconcileRequest = run.auto.Annotation


\* C23: in a run that resolved its references, the checkout reference is
\* the one of the spec when given, else the one of the source, else nil;
\* the push branch is the branch of the push spec when given, else the
\* branch of the checkout reference (a run without either panics there);
\* a push that succeeds sets the remote branch of that name to the local
\* branch of that name, and no other branch of the remote ever leaves the
\* commit it started at.
C23_RefsAndPushTarget ==
    LET gitSpec == run.auto.Spec.GitSpec
        ownSpec == object.Spec.GitSpec
        ownRef == IF ~ownSpec.Checkout.nil THEN ownSpec.Checkout
                  ELSE gitRepository.Reference
    IN  /\ Passed("resolve") =>
               run.ref = (IF ~gitSpec.Checkout.nil THEN gitSpec.Checkout
                          ELSE run.origin.Reference)
        /\ (Passed("resolve") /\ ~run.result.panic) =>
               run.pushBranch = (IF ~gitSpec.Push.nil THEN gitSpec.Push.Branch
                                 ELSE run.ref.Branch)
        /\ (InOps("push") /\ run.pushErr = NoErr) =>
               /\ run.pushBranch \in Branches
               /\ remote.heads[run.pushBranch] = run.repo.heads[run.pushBranch]
        /\ \A b \in Branches :
               remote.heads[b] # (IF b = DefaultBranch THEN 1 ELSE 0) =>
                   b = (IF ~ownSpec.Push.nil THEN ownSpec.Push.Branch ELSE ownRef.Branch)

\* a run checked out master, pushed its commit to flux-updates and left
\* the remote's master where it was
C23_Witness ==
    /\ Done /\ InOps("push") /\ run.pushErr = NoErr
    /\ run.ref = BranchRef("master")
    /\ run.pushBranch = "flux-updates"
    /\ run.rev # 0
    /\ remote.heads["flux-updates"] = run.rev
    /\ remote.heads["master"] = 1


\* commit c is the commit at, or an ancestor of the commit at, head
RECURSIVE Reaches(_, _)
Reaches(head, c) ==
    /\ head # 0
    /\ \/ head = c
       \/ Reaches(commits[head].parent, c)

\* the persisted record of the last push names a commit the remote holds
LastPushIsPushed ==
    object.Status.LastPushCommit # 0 =>
        \E b \in Branches : Reaches(remote.heads[b], object.Status.LastPushCommit)

\* a step that changes the persisted record of the last push belongs to a
\* run whose push succeeded, and records the revision and the time of
\* that run
LastPushChangesAfterPush ==
    (\/ object'.Status.LastPushCommit # object.Status.LastPushCommit
     \/ object'.Status.LastPushTime # object.Status.LastPushTime) =>
        /\ \E i \in DOMAIN run'.ops : run'.ops[i] = "push"
        /\ run'.pushErr = NoErr
        /\ run'.pushBranch \in Branches
        /\ remote'.heads[run'.pushBranch] = run'.rev
        /\ object'.Status.LastPushCommit = run'.rev /\ run'.rev # 0
        /\ object'.Status.LastPushTime = run'.now

\* C24: over any sequence of runs the persisted lastPushCommit and
\* lastPushTime change only in a run whose push succeeded (a suspended run,
\* one whose source is missing, one without a known strategy, one without
\* changes and one that failed leave both as they were), and a persisted
\* lastPushCommit that is not empty is a commit that was pushed to the
\* remote.
C24_LastPushOnlyAfterPush ==
    []LastPushIsPushed /\ [][LastPushChangesAfterPush]_vars

\* a run pushed commit 2 and recorded it; the next run, which found
\* nothing to commit, has ended and the record is still there
C24_Witness ==
    /\ Done /\ run.now = 2 /\ ~InOps("push")
    /\ run.patches # <<>> /\ LastPatch.ok
    /\ object.Status.LastPushCommit = 2
    /\ object.Status.LastPushTime = 1
    /\ \E b \in Branches : remote.heads[b] = 2


\* the git and mutation operations in the order of Reconcile
OpOrder ==
    <<"cloneInto", "fetch", "switchBranch", "updateAccordingToSetters",
      "commitChangedManifests", "push">>

\* the place of an operation in that order
OpPlace(op) == CHOOSE k \in DOMAIN OpOrder : OpOrder[k] = op

IsOrderedOp(op) == \E k \in DOMAIN OpOrder : OpOrder[k] = op

\* C25: in a run the operations cloneInto, fetch, switchBranch,
\* updateAccordingToSetters, commitChangedManifests and push are called in
\* that order, each at most once and each only after the ones that
\* precede it (fetch and switchBranch exactly when a push spec is given);
\* a run in which one of them failed, other than fetch with
\* errRemoteBranchMissing, has ended with that call as its last; and push
\* is called only after commitChangedManifests returned a revision.
C25_OperationOrder ==
    LET ops == SelectSeq(run.ops, IsOrderedOp)
        pushSpec == ~run.auto.Spec.GitSpec.Push.nil
    IN  /\ \A i \in DOMAIN ops, j \in DOMAIN ops :
               i < j => OpPlace(ops[i]) < OpPlace(ops[j])
        /\ ops # <<>> => ops[1] = "cloneInto"
        /\ InOps("fetch") => pushSpec
        /\ InOps("switchBranch") =>
               /\ InOps("fetch")
               /\ run.fetchErr \in {NoErr, errRemoteBranchMissing}
        /\ InOps("updateAccordingToSetters") => (pushSpec <=> InOps("switchBranch"))
        /\ InOps("commitChangedManifests") => InOps("updateAccordingToSetters")
        /\ InOps("push") =>
               /\ InOps("commitChangedManifests")
               /\ run.commitErr = NoErr
               /\ run.rev # 0
        /\ (run.fetchErr \notin {NoErr, errRemoteBranchMissing}
                \/ run.commitErr \notin {NoErr, errNoChanges}
                \/ run.pushErr # NoErr) =>
               /\ Done
               /\ run.failed \in {run.fetchErr, run.commitErr, run.pushErr}
               /\ run.failed # NoErr
        /\ run.failed # NoErr => Done

\* a run with a push spec called all six operations, in order
C25_Witness ==
    /\ Done
    /\ SelectSeq(run.ops, IsOrderedOp) = OpOrder
    /\ run.fetchErr = errRemoteBranchMissing
    /\ run.pushErr = NoErr /\ run.rev # 0


\* C26: patchStatus patches the object as it is when the status is
\* written, and changes nothing but its status: what another actor did to
\* the spec or the metadata after Reconcile read the object (suspend set,
\* a new reconcile-request annotation) is there after the patch; when the
\* calls work the status is the one given, else the object is as it was.
C26_PatchKeepsSpecAndMetadata ==
    call.fn = "patchStatus" =>
        LET current == call.in.current
        IN  /\ call.out.exists = current.exists
            /\ call.out.Spec = current.Spec
            /\ call.out.Annotation = current.Annotation
            /\ call.out.Deleting = current.Deleting
            /\ call.out.Status =
                   (IF call.in.api /\ current.exists THEN call.in.newStatus
                    ELSE current.Status)

\* the object was suspended after the run read it; the status was patched
\* and the object is still suspended
C26_Witness ==
    /\ call.fn = "patchStatus"
    /\ ~call.in.read.Spec.Suspend
    /\ call.in.current.Spec.Suspend
    /\ call.in.api
    /\ call.out.Spec.Suspend
    /\ call.out.Status = call.in.newStatus
    /\ call.out.Status # call.in.read.Status

====
